---------------------------- MODULE Spec2Model ----------------------------
(***************************************************************************)
(* Numerical-Integrator: the RPN expression compiler (parse), its bounded  *)
(* node stack, the AST it builds on the heap, and the recursive evaluator. *)
(*                                                                         *)
(* Modelled program: src/src/parser/expression_parser.{c,h}.  The older    *)
(* src/expression_parser.c uses enum constants (VARIABLE, NUMBER, ...) and *)
(* a field data.number.number that no header of the repository declares,   *)
(* so it is not part of a buildable program and is not modelled.           *)
(*                                                                         *)
(* Representation.                                                         *)
(*  - A C string is a sequence of one-character strings: "1e-2" is         *)
(*    <<"1","e","-","2">>.  A token is such a sequence, an expression is   *)
(*    the sequence of tokens strtok(expression, " ") yields.               *)
(*  - A pointer to a Node is its 1-based index in the heap (the sequence   *)
(*    of nodes malloc has returned so far); NULL is 0; WILD is the value   *)
(*    of a pointer read from memory that was never written.                *)
(*  - A double is a binary floating-point number with a significand of    *)
(*    MantBits bits (53 in the program) and an unbounded exponent, written *)
(*    as the rational <<"num", n, d>> in lowest terms, or <<"inf", s, 1>>, *)
(*    or <<"nan", 0, 1>>.  Every arithmetic operation and every conversion *)
(*    from text rounds its exact result to the nearest such number, ties   *)
(*    to even (fl).  The result of a libm function on an argument with no  *)
(*    exact value known is the uninterpreted term <<"app", f, v>>, and     *)
(*    arithmetic on such a term is <<"bin", op, a, b>>.  Overflow,         *)
(*    subnormals and the sign of zero and of NaN are not modelled.         *)
(*  - exit(1) ends the process: pc = "exit", with the message in err.      *)
(*  - malloc is assumed to succeed.                                        *)
(***************************************************************************)
EXTENDS Integers, Sequences, FiniteSets, TLC

VARIABLES
    expression,   \* the token sequence handed to parse
    pos,          \* 1-based index of the token strtok returns next
    stack,        \* NodeStack: [data, top]
    heap,         \* the nodes allocated so far
    pc,           \* "parse" | "returned" | "evaluated" | "freed" | "exit"
    err,          \* message of the exit(1) that ended the process, or "none"
    root,         \* the pointer parse returned
    xval,         \* the x handed to evaluate
    value,        \* the double evaluate returned
    freed,        \* the blocks handed to free(), in the order of the calls
    frame,        \* the call of integrate or of a sum function in progress
    out           \* what that call has printed or returned

vars == <<expression, pos, stack, heap, pc, err, root, xval, value,
          freed, frame, out>>

-----------------------------------------------------------------------------
(* Program constants                                                       *)

STACK_SIZE == 50

FUNCTION_NAME_MAX == 10

OPERATORS == <<"+", "-", "*", "/", "^">>

NULL == 0

WILD == -1

NODE_VARIABLE == "NODE_VARIABLE"

NODE_NUMBER == "NODE_NUMBER"

NODE_FUNCTION == "NODE_FUNCTION"

NODE_OPERATOR == "NODE_OPERATOR"

FUNCTIONS ==
    << [name |-> <<"s", "i", "n">>, operation |-> "sin"],
       [name |-> <<"c", "o", "s">>, operation |-> "cos"],
       [name |-> <<"t", "g">>,      operation |-> "tan"],
       [name |-> <<"c", "t", "g">>, operation |-> "cot"],
       [name |-> <<"l", "n">>,      operation |-> "log"],
       [name |-> <<"e", "x", "p">>, operation |-> "exp"] >>

nullptr == "nullptr"

MAX_INTEGRAND_LENGTH == 100

MIN_REFINEMENT == 1

MAX_REFINEMENT == 20000000

\* the digits after the decimal point of "%.6f"
PRINT_DECIMALS == 6

-----------------------------------------------------------------------------
(* Bounds of the model                                                     *)

\* longest expression, in tokens, over the whole token alphabet
MaxTokens == 3

\* the long expressions hold up to STACK_SIZE + MaxExtra operand tokens
MaxExtra == 1

\* largest |integer exponent| for which pow is computed exactly
MaxExactPow == 6

\* bits of the significand of a double in the model
MantBits == 5

\* largest refinement (number of sub-intervals) the sums are called with
MaxRefinement == 3

\* the step of the extremum search is 1 / StepDen where integrate passes
\* 1E-05: like 1E-05 it is no binary fraction, and a search over an
\* interval of the model stays a few samples long
StepDen == 5

-----------------------------------------------------------------------------
(* Doubles                                                                 *)

Abs(n) == IF n < 0 THEN -n ELSE n

RECURSIVE GCD(_, _)
GCD(a, b) == IF b = 0 THEN a ELSE GCD(b, a % b)

Num(n, d) ==
    LET g == GCD(Abs(n), Abs(d))
        s == IF d < 0 THEN -1 ELSE 1
    IN  <<"num", (s * n) \div g, (s * d) \div g>>

Inf(s) == <<"inf", s, 1>>

NaN == <<"nan", 0, 1>>

\* the value standing for "evaluate called exit(1)"
Fatal == <<"fatal", 0, 1>>

IsNum(v) == v[1] = "num"

IsInf(v) == v[1] = "inf"

IsNaN(v) == v[1] = "nan"

IsFatal(v) == v[1] = "fatal"

IsExact(v) == IsNum(v) \/ IsInf(v) \/ IsNaN(v)

Sign(n) == IF n < 0 THEN -1 ELSE IF n > 0 THEN 1 ELSE 0

Neg(v) ==
    IF IsNum(v) THEN Num(-v[2], v[3])
    ELSE IF IsInf(v) THEN Inf(-v[2])
    ELSE v

RECURSIVE IPow(_, _)
IPow(b, e) == IF e = 0 THEN 1 ELSE b * IPow(b, e - 1)

\* the nearest value m * 2^e, 2^(MantBits-1) <= m <= 2^MantBits, to the
\* positive rational (n / d) * 2^e, ties to the even m: <<numerator, denominator>>
RECURSIVE RoundPos(_, _, _)
RoundPos(n, d, e) ==
    IF n >= d * IPow(2, MantBits) THEN RoundPos(n, 2 * d, e + 1)
    ELSE IF n < d * IPow(2, MantBits - 1) THEN RoundPos(2 * n, d, e - 1)
    ELSE LET q == n \div d
             r == n % d
             m == IF 2 * r < d THEN q
                  ELSE IF 2 * r > d THEN q + 1
                  ELSE IF q % 2 = 0 THEN q ELSE q + 1
         IN  IF e >= 0 THEN <<m * IPow(2, e), 1>> ELSE <<m, IPow(2, -e)>>

\* the exact rational result v of an operation, rounded to a double
fl(v) ==
    IF ~IsNum(v) \/ v[2] = 0 THEN v
    ELSE LET r == RoundPos(Abs(v[2]), v[3], 0)
         IN  Num(Sign(v[2]) * r[1], r[2])

Symbolic(op, a, b) ==
    IF IsFatal(a) \/ IsFatal(b) THEN Fatal ELSE <<"bin", op, a, b>>

FAdd(a, b) ==
    IF ~(IsExact(a) /\ IsExact(b)) THEN Symbolic("+", a, b)
    ELSE IF IsNaN(a) \/ IsNaN(b) THEN NaN
    ELSE IF IsInf(a) /\ IsInf(b) THEN (IF a[2] = b[2] THEN a ELSE NaN)
    ELSE IF IsInf(a) THEN a
    ELSE IF IsInf(b) THEN b
    ELSE fl(Num(a[2] * b[3] + b[2] * a[3], a[3] * b[3]))

FSub(a, b) ==
    IF ~(IsExact(a) /\ IsExact(b)) THEN Symbolic("-", a, b)
    ELSE FAdd(a, Neg(b))

FMul(a, b) ==
    IF ~(IsExact(a) /\ IsExact(b)) THEN Symbolic("*", a, b)
    ELSE IF IsNaN(a) \/ IsNaN(b) THEN NaN
    ELSE IF IsInf(a) \/ IsInf(b)
         THEN (IF Sign(a[2]) * Sign(b[2]) = 0 THEN NaN
               ELSE Inf(Sign(a[2]) * Sign(b[2])))
    ELSE fl(Num(a[2] * b[2], a[3] * b[3]))

FDiv(a, b) ==
    IF ~(IsExact(a) /\ IsExact(b)) THEN Symbolic("/", a, b)
    ELSE IF IsNaN(a) \/ IsNaN(b) THEN NaN
    ELSE IF IsInf(a) THEN (IF IsInf(b) THEN NaN
                           ELSE Inf(a[2] * (IF b[2] < 0 THEN -1 ELSE 1)))
    ELSE IF IsInf(b) THEN Num(0, 1)
    ELSE IF b[2] = 0 THEN (IF a[2] = 0 THEN NaN ELSE Inf(Sign(a[2])))
    ELSE fl(Num(a[2] * b[3], a[3] * b[2]))

\* a < b on doubles that have a value: false whenever one of them is a NaN
FLess(a, b) ==
    IF IsNaN(a) \/ IsNaN(b) THEN FALSE
    ELSE IF IsInf(a) THEN a[2] < 0 /\ a # b
    ELSE IF IsInf(b) THEN b[2] > 0
    ELSE a[2] * b[3] < b[2] * a[3]

\* a <= b
FLessEq(a, b) == FLess(a, b) \/ (a = b /\ ~IsNaN(a))

\* a == b
FEq(a, b) == a = b /\ ~IsNaN(a)

\* pow(a, b): exact for a rational base and a small integer exponent
pow(a, b) ==
    IF ~(IsNum(a) /\ IsNum(b)) THEN Symbolic("^", a, b)
    ELSE IF b[3] # 1 \/ Abs(b[2]) > MaxExactPow THEN Symbolic("^", a, b)
    ELSE IF b[2] >= 0 THEN fl(Num(IPow(a[2], b[2]), IPow(a[3], b[2])))
    ELSE IF a[2] = 0 THEN Inf(1)
    ELSE fl(Num(IPow(a[3], -b[2]), IPow(a[2], -b[2])))

\* the libm functions the table names, exact only where the value is rational
Libm(f, v) ==
    IF IsFatal(v) THEN Fatal
    ELSE IF IsNaN(v) THEN NaN
    ELSE IF v = Num(0, 1) /\ f \in {"sin", "tan"} THEN Num(0, 1)
    ELSE IF v = Num(0, 1) /\ f \in {"cos", "exp"} THEN Num(1, 1)
    ELSE IF v = Num(1, 1) /\ f = "log" THEN Num(0, 1)
    ELSE IF v = Num(0, 1) /\ f = "log" THEN Inf(-1)
    ELSE <<"app", f, v>>

\* cot(x) = 1 / tan(x)
cot(x) == FDiv(Num(1, 1), Libm("tan", x))

\* a call through a Func pointer
CallFunc(func, v) == IF func = "cot" THEN cot(v) ELSE Libm(func, v)

-----------------------------------------------------------------------------
(* <string.h> and <stdlib.h> on character sequences                        *)

Range(s) == {s[i] : i \in 1..Len(s)}

\* 0 when the strings are equal (only that is ever tested)
strcmp(a, b) == IF a = b THEN 0 ELSE 1

\* strpbrk(s, accept): the first position of s holding a character of accept,
\* NULL when there is none
strpbrk(s, accept) ==
    LET hits == {i \in 1..Len(s) : s[i] \in Range(accept)}
    IN  IF hits = {} THEN NULL ELSE CHOOSE i \in hits : \A j \in hits : i <= j

\* strncpy(dst, src, n) for a source shorter than n: the first n characters
strncpy(src, n) == SubSeq(src, 1, IF Len(src) < n THEN Len(src) ELSE n)

isdigit(c) == c \in {"0", "1", "2", "3", "4", "5", "6", "7", "8", "9"}

DigitVal(c) ==
    CASE c = "0" -> 0 [] c = "1" -> 1 [] c = "2" -> 2 [] c = "3" -> 3
      [] c = "4" -> 4 [] c = "5" -> 5 [] c = "6" -> 6 [] c = "7" -> 7
      [] c = "8" -> 8 [] c = "9" -> 9

\* the first position at or after p that holds no digit
RECURSIVE DigitsEnd(_, _)
DigitsEnd(s, p) ==
    IF p <= Len(s) /\ isdigit(s[p]) THEN DigitsEnd(s, p + 1) ELSE p

\* the decimal number written at positions a .. b-1
RECURSIVE DigitsVal(_, _, _)
DigitsVal(s, a, b) ==
    IF b <= a THEN 0 ELSE 10 * DigitsVal(s, a, b - 1) + DigitVal(s[b - 1])

\* strtod(s, &endptr) on the decimal form
\*   [sign] (digits [. digits] | . digits) [(e|E) [sign] digits]
\* (the alphabet of the model holds no white space, no hexadecimal form and
\* no "inf"/"nan").  endptr is the position after the longest prefix that
\* converts, the start of s when nothing converts; *endptr is '\0' exactly
\* when endptr = Len(s) + 1.
strtod(s) ==
    LET hasSign  == 1 <= Len(s) /\ s[1] \in {"+", "-"}
        sgn      == IF hasSign /\ s[1] = "-" THEN -1 ELSE 1
        p1       == IF hasSign THEN 2 ELSE 1
        p2       == DigitsEnd(s, p1)
        hasDot   == p2 <= Len(s) /\ s[p2] = "."
        f1       == p2 + 1
        p3       == IF hasDot THEN DigitsEnd(s, f1) ELSE p2
        nFrac    == IF hasDot THEN p3 - f1 ELSE 0
        any      == (p2 - p1) + nFrac > 0
        hasE     == p3 <= Len(s) /\ s[p3] \in {"e", "E"}
        e1       == p3 + 1
        hasESign == hasE /\ e1 <= Len(s) /\ s[e1] \in {"+", "-"}
        esgn     == IF hasESign /\ s[e1] = "-" THEN -1 ELSE 1
        e2       == IF hasESign THEN e1 + 1 ELSE e1
        e3       == IF hasE THEN DigitsEnd(s, e2) ELSE e2
        expOK    == hasE /\ e3 > e2
        ex       == IF expOK THEN esgn * DigitsVal(s, e2, e3) ELSE 0
        mant     == sgn * (DigitsVal(s, p1, p2) * IPow(10, nFrac)
                           + (IF hasDot THEN DigitsVal(s, f1, p3) ELSE 0))
        val      == IF ex >= 0 THEN Num(mant * IPow(10, ex), IPow(10, nFrac))
                    ELSE Num(mant, IPow(10, nFrac) * IPow(10, -ex))
    IN  IF ~any THEN [value |-> Num(0, 1), endptr |-> 1]
        ELSE [value |-> fl(val), endptr |-> IF expOK THEN e3 ELSE p3]

-----------------------------------------------------------------------------
(* The node stack                                                          *)

\* C's stack.data[i] is data[i + 1] here.  NodeStack stack = {.top = -1}
\* initializes every slot of data to the null pointer: a slot beyond
\* Len(data) holds NULL.
EmptyStack == [data |-> <<>>, top |-> -1]

\* stack->data[++stack->top] = node
StoreTop(stk, node) ==
    LET t == stk.top + 1
        n == IF Len(stk.data) > t THEN Len(stk.data) ELSE t + 1
    IN  [data |-> [i \in 1..n |-> IF i = t + 1 THEN node ELSE stk.data[i]],
         top  |-> t]

\* a push that checks nothing
push_unchecked(stk, node) ==
    [err |-> "none", stack |-> StoreTop(stk, node)]

push(stk, node) ==
    IF stk.top = STACK_SIZE - 1
    THEN [err |-> "Stack overflow", stack |-> stk]
    ELSE [err |-> "none", stack |-> StoreTop(stk, node)]

\* a pop that checks nothing: reads stack->data[-1] on an empty stack
pop_unchecked(stk) ==
    [err   |-> "none",
     node  |-> IF stk.top >= 0 THEN stk.data[stk.top + 1] ELSE WILD,
     stack |-> [stk EXCEPT !.top = stk.top - 1]]

pop(stk) ==
    IF stk.top < 0
    THEN [err |-> "Stack underflow", node |-> NULL, stack |-> stk]
    ELSE [err   |-> "none",
          node  |-> stk.data[stk.top + 1],
          stack |-> [stk EXCEPT !.top = stk.top - 1]]

-----------------------------------------------------------------------------
(* Nodes                                                                   *)

initialize_node(node, type) ==
    [node EXCEPT !.type = type, !.left = NULL, !.right = NULL]

\* the block NEW_NODE returns, before initialize_node writes it
RawNode == [type |-> "raw", data |-> [raw |-> 0], left |-> WILD, right |-> WILD]

create_variable(name) ==
    [initialize_node(RawNode, NODE_VARIABLE) EXCEPT !.data = [name |-> name]]

create_number(v) ==
    [initialize_node(RawNode, NODE_NUMBER) EXCEPT !.data = [value |-> v]]

create_function(name, func) ==
    [initialize_node(RawNode, NODE_FUNCTION) EXCEPT
        !.data = [name |-> strncpy(name, FUNCTION_NAME_MAX), func |-> func]]

create_operator(symbol) ==
    [initialize_node(RawNode, NODE_OPERATOR) EXCEPT !.data = [symbol |-> symbol]]

RECURSIVE FindFrom(_, _)
FindFrom(name, i) ==
    IF i > Len(FUNCTIONS) THEN nullptr
    ELSE IF strcmp(name, FUNCTIONS[i].name) = 0 THEN FUNCTIONS[i].operation
    ELSE FindFrom(name, i + 1)

find_function(name) == FindFrom(name, 1)

-----------------------------------------------------------------------------
(* parse: the body of the while loop, one token                            *)

\* the class the if-chain of parse gives a token
TokenClass(token) ==
    IF strcmp(token, <<"x">>) = 0 THEN "variable"
    ELSE IF strpbrk(OPERATORS, token) # NULL THEN "operator"
    ELSE IF find_function(token) # nullptr THEN "function"
    ELSE "number"

\* node->right = first pop; node->left = second pop, the other way round
LinkOperator_swapped(node, first, second) ==
    [node EXCEPT !.right = second, !.left = first]

\* node->right = pop(&stack); node->left = pop(&stack);
LinkOperator(node, first, second) ==
    [node EXCEPT !.right = first, !.left = second]

\* node->left = pop(&stack), stored in the right link instead
LinkFunction_right(node, operand) == [node EXCEPT !.right = operand]

\* node->left = pop(&stack);
LinkFunction(node, operand) == [node EXCEPT !.left = operand]

\* each branch yields the stack and heap it leaves and the message of the
\* exit(1) it ran into, "none" when it completed
VariableBranch(stk, hp) ==
    LET r == push(stk, Len(hp) + 1)
    IN  [err |-> r.err, stack |-> r.stack,
         heap |-> Append(hp, create_variable("x"))]

OperatorBranch(stk, hp, token) ==
    LET node == create_operator(token[1])
        p1   == pop(stk)
        p2   == pop(p1.stack)
        r    == push(p2.stack, Len(hp) + 1)
    IN  IF p1.err # "none"
        THEN [err |-> p1.err, stack |-> p1.stack, heap |-> Append(hp, node)]
        ELSE IF p2.err # "none"
        THEN [err |-> p2.err, stack |-> p2.stack,
              heap |-> Append(hp, [node EXCEPT !.right = p1.node])]
        ELSE [err |-> r.err, stack |-> r.stack,
              heap |-> Append(hp, LinkOperator(node, p1.node, p2.node))]

FunctionBranch(stk, hp, token) ==
    LET node == create_function(token, find_function(token))
        p1   == pop(stk)
        r    == push(p1.stack, Len(hp) + 1)
    IN  IF p1.err # "none"
        THEN [err |-> p1.err, stack |-> p1.stack, heap |-> Append(hp, node)]
        ELSE [err |-> r.err, stack |-> r.stack,
              heap |-> Append(hp, LinkFunction(node, p1.node))]

NumberBranch(stk, hp, token) ==
    LET c == strtod(token)
        r == push(stk, Len(hp) + 1)
    IN  IF c.endptr # Len(token) + 1
        THEN [err |-> "Invalid token", stack |-> stk, heap |-> hp]
        ELSE [err |-> r.err, stack |-> r.stack,
              heap |-> Append(hp, create_number(c.value))]

\* return stack.data[0]
ReturnSlot(stk) ==
    IF Len(stk.data) >= 1 THEN stk.data[1] ELSE NULL

-----------------------------------------------------------------------------
(* evaluate                                                                *)

RECURSIVE evaluate(_, _, _)

\* an evaluate whose Function case calls func(x) on the raw variable value
evaluate_raw(hp, head, x) ==
    IF head = NULL THEN Num(0, 1)
    ELSE LET n == hp[head]
         IN  CASE n.type = NODE_VARIABLE -> x
               [] n.type = NODE_NUMBER   -> n.data.value
               [] n.type = NODE_FUNCTION -> CallFunc(n.data.func, x)
               [] n.type = NODE_OPERATOR ->
                    LET l == evaluate(hp, n.left, x)
                        r == evaluate(hp, n.right, x)
                    IN  CASE n.data.symbol = "+" -> FAdd(l, r)
                          [] n.data.symbol = "-" -> FSub(l, r)
                          [] n.data.symbol = "*" -> FMul(l, r)
                          [] n.data.symbol = "/" -> FDiv(l, r)
                          [] n.data.symbol = "^" -> pow(l, r)
                          [] OTHER -> Fatal
               [] OTHER -> Fatal

evaluate(hp, head, x) ==
    IF head = NULL THEN Num(0, 1)
    ELSE LET n == hp[head]
         IN  CASE n.type = NODE_VARIABLE -> x
               [] n.type = NODE_NUMBER   -> n.data.value
               [] n.type = NODE_FUNCTION ->
                    CallFunc(n.data.func, evaluate(hp, n.left, x))
               [] n.type = NODE_OPERATOR ->
                    LET l == evaluate(hp, n.left, x)
                        r == evaluate(hp, n.right, x)
                    IN  CASE n.data.symbol = "+" -> FAdd(l, r)
                          [] n.data.symbol = "-" -> FSub(l, r)
                          [] n.data.symbol = "*" -> FMul(l, r)
                          [] n.data.symbol = "/" -> FDiv(l, r)
                          [] n.data.symbol = "^" -> pow(l, r)
                          [] OTHER -> Fatal
               [] OTHER -> Fatal

\* an evaluate that keeps its result in the node it was called on
EvaluateHeap_caching(hp, head, x) ==
    IF head = NULL THEN hp
    ELSE [hp EXCEPT ![head] = create_number(evaluate(hp, head, x))]

\* the nodes as a call of evaluate leaves them: every case of evaluate only
\* reads *head and passes head->left and head->right on; it stores through
\* no pointer and calls neither malloc nor free
EvaluateHeap(hp, head, x) == hp

-----------------------------------------------------------------------------
(* free_tree and free_resources                                            *)

\* the blocks free() is handed: a node by its pointer, a line buffer by name
NodeBlock(p) == <<"node", p>>

IntegrandBlock == <<"buffer", 1>>

IntervalBlock == <<"buffer", 2>>

NodeBlocks(ps) == [i \in 1..Len(ps) |-> NodeBlock(ps[i])]

RECURSIVE free_tree(_, _)

\* a free_tree that forgets the right subtree
free_tree_left_only(hp, node) ==
    IF node # NULL
    THEN free_tree(hp, hp[node].left) \o <<node>>
    ELSE <<>>

\* the pointers free_tree(node) hands to free(), in the order of the calls
free_tree(hp, node) ==
    IF node # NULL
    THEN free_tree(hp, hp[node].left) \o free_tree(hp, hp[node].right) \o <<node>>
    ELSE <<>>

\* a free_resources that forgets the interval buffer
free_resources_leak(hp, integrand, interval, expr) ==
    (IF integrand # NULL THEN <<IntegrandBlock>> ELSE <<>>)
    \o (IF expr # NULL THEN NodeBlocks(free_tree(hp, expr)) ELSE <<>>)

\* the calls of free() free_resources makes; a null pointer is skipped
free_resources(hp, integrand, interval, expr) ==
    (IF integrand # NULL THEN <<IntegrandBlock>> ELSE <<>>)
    \o (IF interval # NULL THEN <<IntervalBlock>> ELSE <<>>)
    \o (IF expr # NULL THEN NodeBlocks(free_tree(hp, expr)) ELSE <<>>)

\* no call of integrate or of a sum function is in progress
NoFrame == [fn |-> "none"]

-----------------------------------------------------------------------------
(* The extremum searches and the three sums of integral.c                  *)
(*                                                                         *)
(* Each function yields the double it returns (value), the values of x at  *)
(* which its loop body ran, in order (xs), and whether it returns at all   *)
(* (returns): a loop whose x += step leaves x as it was never ends.  With  *)
(* value = Fatal the function has called exit(1).                          *)

Result(v, xs, returns) == [value |-> v, xs |-> xs, returns |-> returns]

RECURSIVE InfimumLoop(_, _, _, _, _, _, _)
InfimumLoop(hp, expr, x, end, step, infimum, xs) ==
    IF ~FLessEq(x, end) THEN Result(infimum, xs, TRUE)
    ELSE LET v    == evaluate(hp, expr, x)
             inf2 == IF FLess(v, infimum) THEN v ELSE infimum
             x2   == FAdd(x, step)
         IN  IF x2 = x THEN Result(inf2, Append(xs, x), FALSE)
             ELSE InfimumLoop(hp, expr, x2, end, step, inf2, Append(xs, x))

\* a find_infimum without the test expr == NULL
find_infimum_unchecked(hp, expr, start, end, step) ==
    InfimumLoop(hp, expr, start, end, step, evaluate(hp, expr, start), <<>>)

find_infimum(hp, expr, start, end, step) ==
    IF expr = NULL THEN Result(Fatal, <<>>, TRUE)
    ELSE InfimumLoop(hp, expr, start, end, step,
                     evaluate(hp, expr, start), <<>>)

RECURSIVE SupremumLoop(_, _, _, _, _, _, _)
SupremumLoop(hp, expr, x, end, step, supremum, xs) ==
    IF ~FLessEq(x, end) THEN Result(supremum, xs, TRUE)
    ELSE LET v    == evaluate(hp, expr, x)
             sup2 == IF FLess(supremum, v) THEN v ELSE supremum
             x2   == FAdd(x, step)
         IN  IF x2 = x THEN Result(sup2, Append(xs, x), FALSE)
             ELSE SupremumLoop(hp, expr, x2, end, step, sup2, Append(xs, x))

\* a find_supremum whose loop stops before the end point: while (x < end)
RECURSIVE SupremumLoop_open(_, _, _, _, _, _, _)
SupremumLoop_open(hp, expr, x, end, step, supremum, xs) ==
    IF ~FLess(x, end) THEN Result(supremum, xs, TRUE)
    ELSE LET v    == evaluate(hp, expr, x)
             sup2 == IF FLess(supremum, v) THEN v ELSE supremum
             x2   == FAdd(x, step)
         IN  IF x2 = x THEN Result(sup2, Append(xs, x), FALSE)
             ELSE SupremumLoop_open(hp, expr, x2, end, step, sup2,
                                    Append(xs, x))

find_supremum_open(hp, expr, start, end, step) ==
    IF expr = NULL THEN Result(Fatal, <<>>, TRUE)
    ELSE SupremumLoop_open(hp, expr, start, end, step,
                           evaluate(hp, expr, start), <<>>)

find_supremum(hp, expr, start, end, step) ==
    IF expr = NULL THEN Result(Fatal, <<>>, TRUE)
    ELSE SupremumLoop(hp, expr, start, end, step,
                      evaluate(hp, expr, start), <<>>)

RECURSIVE RiemannLoop(_, _, _, _, _, _, _)
RiemannLoop(hp, expr, x, end, dx, sum, xs) ==
    IF ~FLess(x, end) THEN Result(sum, xs, TRUE)
    ELSE LET sum2 == FAdd(sum, FMul(evaluate(hp, expr, x), dx))
             x2   == FAdd(x, dx)
         IN  IF x2 = x THEN Result(sum2, Append(xs, x), FALSE)
             ELSE RiemannLoop(hp, expr, x2, end, dx, sum2, Append(xs, x))

\* a Riemann sum that samples the right edge x + dx of each sub-interval
RECURSIVE RiemannLoop_right(_, _, _, _, _, _, _)
RiemannLoop_right(hp, expr, x, end, dx, sum, xs) ==
    IF ~FLess(x, end) THEN Result(sum, xs, TRUE)
    ELSE LET x2   == FAdd(x, dx)
             sum2 == FAdd(sum, FMul(evaluate(hp, expr, x2), dx))
         IN  IF x2 = x THEN Result(sum2, Append(xs, x), FALSE)
             ELSE RiemannLoop_right(hp, expr, x2, end, dx, sum2,
                                    Append(xs, x))

calculate_Riemann_sum_right(hp, expr, start, end, dx) ==
    RiemannLoop_right(hp, expr, start, end, dx, Num(0, 1), <<>>)

calculate_Riemann_sum(hp, expr, start, end, dx) ==
    RiemannLoop(hp, expr, start, end, dx, Num(0, 1), <<>>)

RECURSIVE LowerLoop(_, _, _, _, _, _, _, _)
LowerLoop(hp, expr, x, end, dx, step, sum, xs) ==
    IF ~FLess(x, end) THEN Result(sum, xs, TRUE)
    ELSE LET inf  == find_infimum(hp, expr, x, FAdd(x, dx), step)
             sum2 == FAdd(sum, FMul(inf.value, dx))
             x2   == FAdd(x, dx)
         IN  IF IsFatal(inf.value) THEN Result(Fatal, xs, TRUE)
             ELSE IF ~inf.returns \/ x2 = x
             THEN Result(sum2, Append(xs, x), FALSE)
             ELSE LowerLoop(hp, expr, x2, end, dx, step, sum2, Append(xs, x))

calculate_lower_Darboux_sum(hp, expr, start, end, dx, step) ==
    LowerLoop(hp, expr, start, end, dx, step, Num(0, 1), <<>>)

RECURSIVE UpperLoop(_, _, _, _, _, _, _, _)
UpperLoop(hp, expr, x, end, dx, step, sum, xs) ==
    IF ~FLess(x, end) THEN Result(sum, xs, TRUE)
    ELSE LET sup  == find_supremum(hp, expr, x, FAdd(x, dx), step)
             sum2 == FAdd(sum, FMul(sup.value, dx))
             x2   == FAdd(x, dx)
         IN  IF IsFatal(sup.value) THEN Result(Fatal, xs, TRUE)
             ELSE IF ~sup.returns \/ x2 = x
             THEN Result(sum2, Append(xs, x), FALSE)
             ELSE UpperLoop(hp, expr, x2, end, dx, step, sum2, Append(xs, x))

\* an upper sum whose loop stops one sub-interval early: while (x + dx < end)
calculate_upper_Darboux_sum_short(hp, expr, start, end, dx, step) ==
    UpperLoop(hp, expr, start, FSub(end, dx), dx, step, Num(0, 1), <<>>)

calculate_upper_Darboux_sum(hp, expr, start, end, dx, step) ==
    UpperLoop(hp, expr, start, end, dx, step, Num(0, 1), <<>>)

-----------------------------------------------------------------------------
(* controls.c: validation, the interval text, the report                   *)
(*                                                                         *)
(* The integrand buffer is [lead, tokens, trail]: lead white-space         *)
(* characters, the tokens separated by one space each, trail white-space   *)
(* characters (the newline fgets keeps).  The interval buffer is a         *)
(* character sequence.  A printed double is <<kind, sign, n>>: "fixed"     *)
(* with n the digits of the rounded value in units of 10^-PRINT_DECIMALS,  *)
(* or "inf", or "nan".                                                     *)

RECURSIVE JoinedLen(_)
JoinedLen(tokens) ==
    IF tokens = <<>> THEN 0
    ELSE IF Len(tokens) = 1 THEN Len(tokens[1])
    ELSE Len(tokens[1]) + 1 + JoinedLen(Tail(tokens))

strlen(text) == text.lead + JoinedLen(text.tokens) + text.trail

\* remove_spaces on a buffer that holds at least one character: the leading
\* and the trailing white space go.  On the empty string end is
\* strlen(str) - 1 = SIZE_MAX: the second loop reads str[SIZE_MAX] and the
\* copy loop runs i from 0 while i <= end, beyond the buffer and every
\* mapped page after it: undefined behaviour, the only outcome of which is
\* the end of the process by a memory fault.
remove_spaces(text) == [text EXCEPT !.lead = 0, !.trail = 0]

\* a validate_integrand that accepts every length
validate_integrand_any(text) == TRUE

validate_integrand(text) == ~(strlen(text) > MAX_INTEGRAND_LENGTH)

isspace(c) == c \in {" ", "\n", "\t"}

RECURSIVE SkipSpace(_, _)
SkipSpace(s, p) ==
    IF p <= Len(s) /\ isspace(s[p]) THEN SkipSpace(s, p + 1) ELSE p

\* what %lf yields when strtod, started at position q, converted c
Converted(q, c) ==
    [ok |-> c.endptr > 1, value |-> c.value, next |-> q + c.endptr - 1]

ScanAt(s, q) == Converted(q, strtod(SubSeq(s, q, Len(s))))

\* %lf at position p: white space, then the longest prefix strtod converts
ScanDouble(s, p) == ScanAt(s, SkipSpace(s, p))

\* the assignments of "[%lf ; %lf]" once the first field converted to d1,
\* the white space after it ended at p and the second field gave d2: a
\* field that does not convert ends the scan and leaves its double, and
\* the later one, as it was
Assigned(interval, start0, end0, d1, p, d2) ==
    IF ~d1.ok THEN [n |-> 0, start |-> start0, end |-> end0]
    ELSE IF p > Len(interval) \/ interval[p] # ";" \/ ~d2.ok
    THEN [n |-> 1, start |-> d1.value, end |-> end0]
    ELSE [n |-> 2, start |-> d1.value, end |-> d2.value]

ScanSecond(interval, start0, end0, d1, p) ==
    Assigned(interval, start0, end0, d1, p, ScanDouble(interval, p + 1))

ScanSeparator(interval, start0, end0, d1) ==
    ScanSecond(interval, start0, end0, d1, SkipSpace(interval, d1.next))

\* sscanf(interval, "[%lf ; %lf]", start, end): the number of assignments
\* and *start, *end after it
sscanf(interval, start0, end0) ==
    IF Len(interval) < 1 \/ interval[1] # "["
    THEN [n |-> 0, start |-> start0, end |-> end0]
    ELSE ScanSeparator(interval, start0, end0, ScanDouble(interval, 2))

UndefinedInterval == <<"[", " ", ";", " ", "]">>

\* a validate_interval without the test *start == *end
Uncompared(sc) == [ok |-> TRUE, start |-> sc.start, end |-> sc.end]

validate_interval_no_equal(interval, start0, end0) ==
    IF strcmp(interval, UndefinedInterval) = 0
    THEN [ok |-> FALSE, start |-> start0, end |-> end0]
    ELSE Uncompared(sscanf(interval, start0, end0))

\* the rest of validate_interval once sscanf has left sc in *start, *end
Compared(sc) ==
    [ok |-> ~FEq(sc.start, sc.end), start |-> sc.start, end |-> sc.end]

\* validate_interval; start0 and end0 are what *start and *end hold before
validate_interval(interval, start0, end0) ==
    IF strcmp(interval, UndefinedInterval) = 0
    THEN [ok |-> FALSE, start |-> start0, end |-> end0]
    ELSE Compared(sscanf(interval, start0, end0))

\* get_partition_refinement when scanf("%d") has read the integer input
get_partition_refinement(input) ==
    IF input < MIN_REFINEMENT \/ input > MAX_REFINEMENT THEN -1 ELSE input

\* printf("%.6f"): the decimal text of a double
Printed(v) ==
    IF IsNaN(v) THEN <<"nan", 0, 0>>
    ELSE IF IsInf(v) THEN <<"inf", v[2], 0>>
    ELSE LET scaled == Abs(v[2]) * IPow(10, PRINT_DECIMALS)
             q      == scaled \div v[3]
             r      == scaled % v[3]
             m      == IF 2 * r < v[3] THEN q
                       ELSE IF 2 * r > v[3] THEN q + 1
                       ELSE IF q % 2 = 0 THEN q ELSE q + 1
         IN  <<"fixed", Sign(v[2]), m>>

\* a print_signed_value that ignores minus
print_signed_value_plain(minus, v) == Printed(v)

print_signed_value(minus, v) == Printed(IF minus THEN Neg(v) ELSE v)

fabs(v) == IF IsNum(v) THEN Num(Abs(v[2]), v[3])
           ELSE IF IsInf(v) THEN Inf(1) ELSE v

\* the numbers log_integral_values prints, in order
log_integral_values(minus, Riemann_sum, lower_Darboux_sum, upper_Darboux_sum) ==
    LET average == FDiv(FAdd(upper_Darboux_sum, lower_Darboux_sum), Num(2, 1))
    IN  << print_signed_value(minus, Riemann_sum),
           print_signed_value(minus, lower_Darboux_sum),
           print_signed_value(minus, upper_Darboux_sum),
           Printed(fabs(FSub(upper_Darboux_sum, lower_Darboux_sum))),
           Printed(IF minus THEN Neg(average) ELSE average),
           Printed(fabs(FSub(average, Riemann_sum))) >>

\* integrate: start > end swaps the two and sets minus
SwapBounds(start, end) ==
    IF FLess(end, start)
    THEN [start |-> end, end |-> start, minus |-> TRUE]
    ELSE [start |-> start, end |-> end, minus |-> FALSE]

-----------------------------------------------------------------------------
(* Inputs                                                                  *)

Tokens ==
    { <<"x">>,
      <<"+">>, <<"-">>, <<"*">>, <<"/">>, <<"^">>,
      <<"s", "i", "n">>, <<"c", "t", "g">>,
      <<"0">>, <<"2">>, <<"2", ".", "5">>,
      <<"-", "3">>, <<"1", "e", "-", "2">>,
      <<"a", "+">>, <<"2", "a">> }

Repeat(t, n) == [i \in 1..n |-> t]

Tails == { <<>>, << <<"+">> >>, << <<"s", "i", "n">> >> }

\* longer expressions, among them the examples the specification gives
Samples ==
    { << <<"2">>, <<"3">>, <<"+">> >>,
      << <<"x">>, <<"2">>, <<"*">>, <<"s", "i", "n">> >>,
      << <<"x">>, <<"x">>, <<"*">>, <<"2">>, <<"-">> >>,
      << <<"2">>, <<"x">>, <<"x">>, <<"/">>, <<"^">> >>,
      << <<"x">>, <<"l", "n">>, <<"x">>, <<"e", "x", "p">>, <<"+">> >>,
      << <<"x">>, <<"c", "o", "s">>, <<"t", "g">>, <<"3">>, <<"2">>, <<"x">> >> }

Expressions ==
    UNION {[1..n -> Tokens] : n \in 0..MaxTokens}
    \cup Samples
    \cup {Repeat(<<"x">>, n) \o t :
            n \in (STACK_SIZE - 1)..(STACK_SIZE + MaxExtra), t \in Tails}

Xs == {Num(0, 1), Num(-2, 1), Num(1, 2)}

\* integrands whose value at every sample point is a number, an infinity or
\* a NaN the model knows exactly (so that the searches can compare them),
\* and integrands that do not compile
Integrands ==
    { << <<"5">> >>,
      << <<"x">> >>,
      << <<"x">>, <<"x">>, <<"*">> >>,
      << <<"2">>, <<"x">>, <<"-">> >>,
      << <<"1">>, <<"x">>, <<"/">> >>,
      << <<"0">>, <<"0">>, <<"/">> >>,
      << <<"0">>, <<"c", "o", "s">> >>,
      << <<"2">>, <<"3">> >>,
      << <<"x">>, <<"+">> >> }

\* interval end points and search steps the sum functions are called with
Points == {Num(-1, 1), Num(0, 1), Num(1, 1), Num(2, 1)}

step == fl(Num(1, StepDen))

Steps == {step, Num(1, 2), Num(1, 1)}

\* the integrand lines integrate is handed: each integrand with the newline
\* fgets keeps, 50 tokens in 99 and in 100 characters, 51 tokens in 101
\* characters, a line of white space only, and the empty buffer
\* read_last_two_lines leaves for a file of fewer than two lines
IntegrandTexts ==
    {[lead |-> 0, tokens |-> e, trail |-> 1] :
        e \in Integrands \cup {Repeat(<<"x">>, STACK_SIZE),
                               Repeat(<<"x">>, STACK_SIZE + 1), <<>>}}
    \cup {[lead |-> 1, trail |-> 1,
           tokens |-> Repeat(<<"x">>, STACK_SIZE - 1) \o << <<"2", "5">> >>],
          [lead |-> 0, trail |-> 0, tokens |-> <<>>]}

\* the interval lines: "[0 ; 2]", "[2 ; 0]", "[-1 ; 0]", "[0 ; -1]",
\* "[1 ; 1]", "[1 ; 1.0]", "[ ; ]", "[1 ; ]", "[a ; b]"
Intervals ==
    { <<"[", "0", " ", ";", " ", "2", "]">>,
      <<"[", "2", " ", ";", " ", "0", "]">>,
      <<"[", "-", "1", " ", ";", " ", "0", "]">>,
      <<"[", "0", " ", ";", " ", "-", "1", "]">>,
      <<"[", "1", " ", ";", " ", "1", "]">>,
      <<"[", "1", " ", ";", " ", "1", ".", "0", "]">>,
      UndefinedInterval,
      <<"[", "1", " ", ";", " ", "]">>,
      <<"[", "a", " ", ";", " ", "b", "]">>,
      <<"[", "1", "6", " ", ";", " ", "1", "7", "]">> }

\* the integers scanf("%d") reads for the refinement
RefinementInputs ==
    (MIN_REFINEMENT - 1)..MaxRefinement \cup {MAX_REFINEMENT + 1}

\* a double that was declared and never assigned
Indeterminate == <<"indeterminate", 0, 1>>

\* what reading such a double can yield
IndeterminateDoubles == {Num(0, 1), Num(1, 1), NaN}

\* a non-null pointer to a line buffer
BUFFER == 1

-----------------------------------------------------------------------------
(* The state machine: one compilation, then calls of evaluate on its result *)

Init ==
    /\ expression \in Expressions
    /\ pos = 1
    /\ stack = EmptyStack
    /\ heap = <<>>
    /\ pc = "parse"
    /\ err = "none"
    /\ root = NULL
    /\ xval = Num(0, 1)
    /\ value = Num(0, 1)
    /\ freed = <<>>
    /\ frame = NoFrame
    /\ out = <<>>

HasToken == pc = "parse" /\ pos <= Len(expression)

\* the end of one iteration: token = strtok(nullptr, " "), or exit(1)
Finish(r) ==
    /\ stack' = r.stack
    /\ heap' = r.heap
    /\ IF r.err = "none"
       THEN pos' = pos + 1 /\ UNCHANGED <<pc, err>>
       ELSE pc' = "exit" /\ err' = r.err /\ UNCHANGED pos
    /\ UNCHANGED <<expression, root, xval, value, freed, frame, out>>

ParseVariable ==
    /\ HasToken
    /\ TokenClass(expression[pos]) = "variable"
    /\ Finish(VariableBranch(stack, heap))

ParseOperator ==
    /\ HasToken
    /\ TokenClass(expression[pos]) = "operator"
    /\ Finish(OperatorBranch(stack, heap, expression[pos]))

ParseFunction ==
    /\ HasToken
    /\ TokenClass(expression[pos]) = "function"
    /\ Finish(FunctionBranch(stack, heap, expression[pos]))

ParseNumber ==
    /\ HasToken
    /\ TokenClass(expression[pos]) = "number"
    /\ Finish(NumberBranch(stack, heap, expression[pos]))

ParseReturn ==
    /\ pc = "parse"
    /\ pos > Len(expression)
    /\ root' = ReturnSlot(stack)
    /\ pc' = "returned"
    /\ UNCHANGED <<expression, pos, stack, heap, err, xval, value,
                   freed, frame, out>>

\* evaluate(expression, x) on the pointer parse returned, any number of times
Evaluate ==
    /\ pc \in {"returned", "evaluated"}
    /\ \E x \in Xs :
         LET v == evaluate(heap, root, x)
         IN  /\ xval' = x
             /\ heap' = EvaluateHeap(heap, root, x)
             /\ IF IsFatal(v)
                THEN pc' = "exit" /\ err' = "Unknown operator" /\ UNCHANGED value
                ELSE pc' = "evaluated" /\ value' = v /\ UNCHANGED err
    /\ UNCHANGED <<expression, pos, stack, root, freed, frame, out>>

\* free_tree(expression) on the pointer parse returned
FreeTree ==
    /\ pc \in {"returned", "evaluated"}
    /\ freed' = freed \o NodeBlocks(free_tree(heap, root))
    /\ pc' = "freed"
    /\ UNCHANGED <<expression, pos, stack, heap, err, root, xval, value,
                   frame, out>>

Next ==
    \/ ParseVariable
    \/ ParseOperator
    \/ ParseFunction
    \/ ParseNumber
    \/ ParseReturn
    \/ Evaluate
    \/ FreeTree

Spec == Init /\ [][Next]_vars

-----------------------------------------------------------------------------
(* The sum functions called on the tree of a compilation                   *)

InitSums ==
    /\ expression \in Integrands \cup {<<>>}
    /\ pos = 1
    /\ stack = EmptyStack
    /\ heap = <<>>
    /\ pc = "parse"
    /\ err = "none"
    /\ root = NULL
    /\ xval = Num(0, 1)
    /\ value = Num(0, 1)
    /\ freed = <<>>
    /\ frame = NoFrame
    /\ out = <<>>

\* the end of a call: it returned, it called exit(1), or it never ends
Called(fr, r) ==
    /\ frame' = fr
    /\ out' = r
    /\ pc' = IF IsFatal(r.value) THEN "exit"
             ELSE IF r.returns THEN "called" ELSE "hang"
    /\ err' = IF IsFatal(r.value) THEN "Error parsing expression." ELSE err
    /\ UNCHANGED <<expression, pos, stack, heap, root, xval, value, freed>>

CallFindInfimum ==
    /\ pc = "returned"
    /\ \E a \in Points, b \in Points, h \in Steps :
           Called([fn |-> "find_infimum", start |-> a, end |-> b, step |-> h],
                  find_infimum(heap, root, a, b, h))

CallFindSupremum ==
    /\ pc = "returned"
    /\ \E a \in Points, b \in Points, h \in Steps :
           Called([fn |-> "find_supremum", start |-> a, end |-> b, step |-> h],
                  find_supremum(heap, root, a, b, h))

\* the frame of a sum over [a, b] in n sub-intervals: dx as integrate has it
SumFrame(fn, a, b, n, h) ==
    [fn |-> fn, start |-> a, end |-> b, n |-> n,
     dx |-> FDiv(FSub(b, a), Num(n, 1)), step |-> h]

CallRiemannSum ==
    /\ pc = "returned"
    /\ \E a \in Points, b \in Points, n \in 1..MaxRefinement :
           LET fr == SumFrame("calculate_Riemann_sum", a, b, n, step)
           IN  Called(fr, calculate_Riemann_sum(heap, root, a, b, fr.dx))

CallLowerDarbouxSum ==
    /\ pc = "returned"
    /\ \E a \in Points, b \in Points, n \in 1..MaxRefinement, h \in Steps :
           LET fr == SumFrame("calculate_lower_Darboux_sum", a, b, n, h)
           IN  Called(fr, calculate_lower_Darboux_sum(heap, root, a, b, fr.dx, h))

CallUpperDarbouxSum ==
    /\ pc = "returned"
    /\ \E a \in Points, b \in Points, n \in 1..MaxRefinement, h \in Steps :
           LET fr == SumFrame("calculate_upper_Darboux_sum", a, b, n, h)
           IN  Called(fr, calculate_upper_Darboux_sum(heap, root, a, b, fr.dx, h))

NextSums ==
    \/ ParseVariable
    \/ ParseOperator
    \/ ParseFunction
    \/ ParseNumber
    \/ ParseReturn
    \/ CallFindInfimum
    \/ CallFindSupremum
    \/ CallRiemannSum
    \/ CallLowerDarbouxSum
    \/ CallUpperDarbouxSum

SpecSums == InitSums /\ [][NextSums]_vars

-----------------------------------------------------------------------------
(* integrate(integrand, interval)                                          *)

IntegrateFrame(text, interval) ==
    [fn |-> "integrate", at |-> "validate_integrand", failed |-> "none",
     integrand |-> text, interval |-> interval,
     start |-> Indeterminate, end |-> Indeterminate,
     refinement |-> 0, minus |-> FALSE, dx |-> Indeterminate,
     Riemann_sum |-> Indeterminate, lower_Darboux_sum |-> Indeterminate,
     upper_Darboux_sum |-> Indeterminate]

InitIntegrate ==
    /\ expression = <<>>
    /\ pos = 1
    /\ stack = EmptyStack
    /\ heap = <<>>
    /\ pc = "idle"
    /\ err = "none"
    /\ root = NULL
    /\ xval = Num(0, 1)
    /\ value = Num(0, 1)
    /\ freed = <<>>
    /\ frame \in {IntegrateFrame(t, i) : t \in IntegrandTexts, i \in Intervals}
    /\ out = <<>>

At(place) == frame.fn = "integrate" /\ frame.at = place /\ pc \in {"idle", "returned"}

\* free_resources(integrand, interval, nullptr); return;
Reject(fr, why) ==
    /\ frame' = [fr EXCEPT !.at = "return", !.failed = why]
    /\ freed' = freed \o free_resources(heap, BUFFER, BUFFER, NULL)

IntegrateValidateIntegrand ==
    /\ At("validate_integrand")
    /\ IF strlen(frame.integrand) = 0
       THEN /\ pc' = "exit"
            /\ err' = "crash"
            /\ UNCHANGED <<frame, freed>>
       ELSE LET t  == remove_spaces(frame.integrand)
                fr == [frame EXCEPT !.integrand = t]
            IN  /\ IF validate_integrand(t)
                   THEN /\ frame' = [fr EXCEPT !.at = "validate_interval"]
                        /\ UNCHANGED freed
                   ELSE Reject(fr, "integrand")
                /\ UNCHANGED <<pc, err>>
    /\ UNCHANGED <<expression, pos, stack, heap, root, xval, value, out>>

IntegrateValidateInterval ==
    /\ At("validate_interval")
    /\ \E s0 \in IndeterminateDoubles, e0 \in IndeterminateDoubles :
         \E v \in {validate_interval(frame.interval, s0, e0)} :
           IF v.ok
           THEN /\ frame' = [frame EXCEPT !.start = v.start, !.end = v.end,
                                          !.at = "get_partition_refinement"]
                /\ UNCHANGED freed
           ELSE Reject([frame EXCEPT !.start = v.start, !.end = v.end],
                       "interval")
    /\ UNCHANGED <<expression, pos, stack, heap, pc, err, root, xval, value, out>>

IntegrateGetRefinement ==
    /\ At("get_partition_refinement")
    /\ \E input \in RefinementInputs :
         LET fr == [frame EXCEPT !.refinement = get_partition_refinement(input)]
         IN  IF fr.refinement = -1
             THEN Reject(fr, "refinement")
             ELSE /\ frame' = [fr EXCEPT !.at = "parse"]
                  /\ UNCHANGED freed
    /\ UNCHANGED <<expression, pos, stack, heap, pc, err, root, xval, value, out>>

\* Node* expression = parse(integrand): the call
IntegrateParse ==
    /\ At("parse")
    /\ expression' = frame.integrand.tokens
    /\ pos' = 1
    /\ stack' = EmptyStack
    /\ pc' = "parse"
    /\ frame' = [frame EXCEPT !.at = "parsing"]
    /\ UNCHANGED <<heap, err, root, xval, value, freed, out>>

\* parse has returned: if (!expression) { perror; free_resources; return; },
\* the swap, dx
IntegrateParsed ==
    /\ At("parsing")
    /\ pc = "returned"
    /\ IF root = NULL
       THEN /\ err' = "Error parsing expression."
            /\ Reject(frame, "parse")
       ELSE LET sw == SwapBounds(frame.start, frame.end)
            IN  /\ frame' = [frame EXCEPT
                      !.start = sw.start, !.end = sw.end, !.minus = sw.minus,
                      !.dx = FDiv(FSub(sw.end, sw.start),
                                  Num(frame.refinement, 1)),
                      !.at = "Riemann"]
                /\ UNCHANGED <<freed, err>>
    /\ UNCHANGED <<expression, pos, stack, heap, pc, root, xval, value, out>>

\* what integrate does with r, the outcome of one of its three sum calls:
\* the function returns and the result is kept, or it calls exit(1), or it
\* never ends
SumStep(next, field, r) ==
    /\ IF IsFatal(r.value)
       THEN pc' = "exit" /\ err' = "Error parsing expression."
                        /\ UNCHANGED frame
       ELSE IF ~r.returns
       THEN pc' = "hang" /\ UNCHANGED <<err, frame>>
       ELSE /\ frame' = [frame EXCEPT ![field] = r.value, !.at = next]
            /\ UNCHANGED <<pc, err>>
    /\ UNCHANGED <<expression, pos, stack, heap, root, xval, value, freed, out>>

IntegrateRiemann ==
    /\ At("Riemann")
    /\ SumStep("lower", "Riemann_sum",
               calculate_Riemann_sum(heap, root, frame.start, frame.end,
                                     frame.dx))

IntegrateLower ==
    /\ At("lower")
    /\ SumStep("upper", "lower_Darboux_sum",
               calculate_lower_Darboux_sum(heap, root, frame.start, frame.end,
                                           frame.dx, step))

IntegrateUpper ==
    /\ At("upper")
    /\ SumStep("log", "upper_Darboux_sum",
               calculate_upper_Darboux_sum(heap, root, frame.start, frame.end,
                                           frame.dx, step))

IntegrateLog ==
    /\ At("log")
    /\ out' = log_integral_values(frame.minus, frame.Riemann_sum,
                                  frame.lower_Darboux_sum,
                                  frame.upper_Darboux_sum)
    /\ frame' = [frame EXCEPT !.at = "free"]
    /\ UNCHANGED <<expression, pos, stack, heap, pc, err, root, xval, value,
                   freed>>

\* an integrate that frees its resources and returns before the upper
\* Darboux sum is computed
IntegrateFree_early ==
    /\ At("upper")
    /\ freed' = freed \o free_resources(heap, BUFFER, BUFFER, root)
    /\ frame' = [frame EXCEPT !.at = "return"]
    /\ UNCHANGED <<expression, pos, stack, heap, pc, err, root, xval, value, out>>

\* free_resources(integrand, interval, expression); the return
IntegrateFree ==
    /\ At("free")
    /\ freed' = freed \o free_resources(heap, BUFFER, BUFFER, root)
    /\ frame' = [frame EXCEPT !.at = "return"]
    /\ UNCHANGED <<expression, pos, stack, heap, pc, err, root, xval, value, out>>

NextIntegrate ==
    \/ IntegrateValidateIntegrand
    \/ IntegrateValidateInterval
    \/ IntegrateGetRefinement
    \/ IntegrateParse
    \/ ParseVariable
    \/ ParseOperator
    \/ ParseFunction
    \/ ParseNumber
    \/ ParseReturn
    \/ IntegrateParsed
    \/ IntegrateRiemann
    \/ IntegrateLower
    \/ IntegrateUpper
    \/ IntegrateLog
    \/ IntegrateFree

SpecIntegrate == InitIntegrate /\ [][NextIntegrate]_vars

-----------------------------------------------------------------------------
(* read_last_two_lines(filename, last, second_last) and its two callers,   *)
(* numerical_integration and integrate_last                                *)
(*                                                                         *)
(* A log file is the sequence of its lines, each a sequence of characters  *)
(* that ends with "\n" (only the last line may lack it). A buffer is the   *)
(* string it holds. Unset is the value of a char pointer of the caller     *)
(* that nothing was assigned to.                                           *)

INITIAL_SIZE == 256

Unset == <<"unset">>

Chars(c, n) == [i \in 1..n |-> c]

Line(text) == text \o <<"\n">>

IntervalLine == Line(<<"[", "0", " ", ";", " ", "2", "]">>)

IntegrandLine == Line(<<"x", " ", "x", " ", "*">>)

LogFiles ==
    {[exists |-> FALSE, lines |-> <<>>],
     [exists |-> TRUE, lines |-> <<>>],
     [exists |-> TRUE, lines |-> <<IntegrandLine>>],
     [exists |-> TRUE, lines |-> <<IntegrandLine, IntervalLine>>],
     [exists |-> TRUE, lines |-> <<Line(<<"2">>), IntervalLine,
                                   IntegrandLine, IntervalLine>>],
     [exists |-> TRUE, lines |-> <<IntegrandLine,
                                   <<"[", "0", " ", ";", " ", "2", "]">>>>],
     [exists |-> TRUE, lines |-> <<Line(Chars("x", INITIAL_SIZE - 2)),
                                   IntervalLine>>],
     [exists |-> TRUE, lines |-> <<Line(Chars("x", INITIAL_SIZE - 1)),
                                   IntervalLine>>],
     [exists |-> TRUE, lines |-> <<Line(Chars("x", INITIAL_SIZE + 44)),
                                   IntervalLine>>],
     [exists |-> TRUE, lines |-> <<Line(Chars("x", 3 * INITIAL_SIZE)),
                                   IntervalLine>>],
     [exists |-> TRUE, lines |-> <<IntegrandLine,
                                   Line(Chars("1", INITIAL_SIZE + 44))>>]}

Callers == {"numerical_integration", "integrate_last"}

ReadFrame(caller, f) ==
    [fn |-> caller, at |-> "fopen", file |-> f, line |-> 1, off |-> 0,
     size |-> 0, last_line |-> <<>>, second_last_line |-> <<>>,
     integrand |-> Unset, interval |-> Unset]

InitRead ==
    /\ expression = <<>>
    /\ pos = 1
    /\ stack = EmptyStack
    /\ heap = <<>>
    /\ pc = "idle"
    /\ err = "none"
    /\ root = NULL
    /\ xval = Num(0, 1)
    /\ value = Num(0, 1)
    /\ freed = <<>>
    /\ frame \in {ReadFrame(c, f) : c \in Callers, f \in LogFiles}
    /\ out = <<>>

Reading(place) == frame.fn \in Callers /\ frame.at = place /\ pc = "idle"

(* fgets(s, size, file): at most size - 1 characters from the read         *)
(* position, up to and including the first "\n"; <<>> stands for the null  *)
(* pointer it returns at the end of the file, s untouched.                 *)
fgets(lines, line, off, size) ==
    IF line > Len(lines)
    THEN <<>>
    ELSE LET n == Len(lines[line]) - off
         IN  SubSeq(lines[line], off + 1,
                    off + (IF n < size - 1 THEN n ELSE size - 1))

(* The read position after the chunk was taken.                            *)
Advance(fr, chunk) ==
    IF fr.off + Len(chunk) = Len(fr.file.lines[fr.line])
    THEN [fr EXCEPT !.line = @ + 1, !.off = 0]
    ELSE [fr EXCEPT !.off = @ + Len(chunk)]

(* FILE *file = fopen(filename, "r"); if (file == NULL) { perror; return } *)
ReadOpen ==
    /\ Reading("fopen")
    /\ IF frame.file.exists
       THEN /\ frame' = [frame EXCEPT !.at = "malloc", !.size = INITIAL_SIZE]
            /\ UNCHANGED err
       ELSE /\ frame' = [frame EXCEPT !.at = "returned"]
            /\ err' = "Error opening file"
    /\ UNCHANGED <<expression, pos, stack, heap, pc, root, xval, value,
                   freed, out>>

(* The two malloc calls, the test of their results and the two empty       *)
(* strings stored.                                                         *)
ReadAllocate ==
    /\ Reading("malloc")
    /\ \E allocated \in BOOLEAN :
          IF allocated
          THEN /\ frame' = [frame EXCEPT !.at = "fgets", !.last_line = <<>>,
                                         !.second_last_line = <<>>]
               /\ UNCHANGED err
          ELSE /\ frame' = [frame EXCEPT !.at = "returned"]
               /\ err' = "Did not manage to allocate memory"
    /\ UNCHANGED <<expression, pos, stack, heap, pc, root, xval, value,
                   freed, out>>

(* One iteration of while (fgets(last_line, size, file) != NULL): a chunk  *)
(* that ends with "\n" swaps the two buffers, any other doubles size and   *)
(* reallocates both, the chunk staying at the start of last_line.          *)
ReadLine ==
    /\ Reading("fgets")
    /\ \E chunk \in {fgets(frame.file.lines, frame.line, frame.off, frame.size)} :
          /\ chunk # <<>>
          /\ IF chunk[Len(chunk)] = "\n"
             THEN /\ frame' = [Advance(frame, chunk) EXCEPT
                                  !.last_line = frame.second_last_line,
                                  !.second_last_line = chunk]
                  /\ UNCHANGED err
             ELSE \E allocated \in BOOLEAN :
                     IF allocated
                     THEN /\ frame' = [Advance(frame, chunk) EXCEPT
                                          !.last_line = chunk,
                                          !.size = 2 * @]
                          /\ UNCHANGED err
                     ELSE /\ frame' = [Advance(frame, chunk) EXCEPT
                                          !.last_line = chunk,
                                          !.size = 2 * @,
                                          !.at = "returned"]
                          /\ err' = "Did not manage to allocate memory"
    /\ UNCHANGED <<expression, pos, stack, heap, pc, root, xval, value,
                   freed, out>>

(* fgets returned NULL: *last = last_line; *second_last =                  *)
(* second_last_line; fclose(file). The callers pass &integrand as last and *)
(* &interval as second_last.                                               *)
ReadEnd ==
    /\ Reading("fgets")
    /\ fgets(frame.file.lines, frame.line, frame.off, frame.size) = <<>>
    /\ frame' = [frame EXCEPT !.at = "returned",
                              !.integrand = frame.last_line,
                              !.interval = frame.second_last_line]
    /\ UNCHANGED <<expression, pos, stack, heap, pc, err, root, xval, value,
                   freed, out>>

(* The statements of the caller after read_last_two_lines returned:        *)
(* integrate_last prints both strings, then both callers call              *)
(* integrate(integrand, interval), whatever read_last_two_lines did. With  *)
(* pointers nothing was assigned to, the behaviour is undefined: integrate *)
(* is entered with them, or the process faults on reading through them.    *)
CallIntegrate ==
    /\ Reading("returned")
    /\ \/ /\ frame' = [frame EXCEPT !.at = "integrate"]
          /\ UNCHANGED <<pc, err>>
       \/ /\ frame.integrand = Unset
          /\ pc' = "exit"
          /\ err' = "crash"
          /\ UNCHANGED frame
    /\ UNCHANGED <<expression, pos, stack, heap, root, xval, value,
                   freed, out>>

NextRead ==
    \/ ReadOpen
    \/ ReadAllocate
    \/ ReadLine
    \/ ReadEnd
    \/ CallIntegrate

SpecRead == InitRead /\ [][NextRead]_vars

-----------------------------------------------------------------------------
(* The token classes and the RPN semantics the specification states, used  *)
(* only to state the properties below                                      *)

IsVariable(t) == t = <<"x">>

IsBinaryOperator(t) == Len(t) = 1 /\ t[1] \in Range(OPERATORS)

IsFunctionName(t) == \E i \in 1..Len(FUNCTIONS) : FUNCTIONS[i].name = t

IsNumberLiteral(t) == Len(t) >= 1 /\ strtod(t).endptr = Len(t) + 1

ApplyOperator(sym, a, b) ==
    CASE sym = "+" -> FAdd(a, b)
      [] sym = "-" -> FSub(a, b)
      [] sym = "*" -> FMul(a, b)
      [] sym = "/" -> FDiv(a, b)
      [] sym = "^" -> pow(a, b)

\* the depth of the value stack after the tokens from i on, -1 when a token
\* is no literal, variable or binary operator or an operator lacks operands
RECURSIVE RpnDepth(_, _, _)
RpnDepth(toks, i, d) ==
    IF i > Len(toks) THEN d
    ELSE IF IsVariable(toks[i]) THEN RpnDepth(toks, i + 1, d + 1)
    ELSE IF IsBinaryOperator(toks[i])
         THEN (IF d < 2 THEN -1 ELSE RpnDepth(toks, i + 1, d - 1))
    ELSE IF IsNumberLiteral(toks[i]) THEN RpnDepth(toks, i + 1, d + 1)
    ELSE -1

WellFormedRpn(toks) == RpnDepth(toks, 1, 0) = 1

\* the value stack after the tokens from i on, started from vs
RECURSIVE RpnRun(_, _, _, _)
RpnRun(toks, i, vs, x) ==
    IF i > Len(toks) THEN vs
    ELSE IF IsVariable(toks[i]) THEN RpnRun(toks, i + 1, Append(vs, x), x)
    ELSE IF IsBinaryOperator(toks[i])
         THEN RpnRun(toks, i + 1,
                     Append(SubSeq(vs, 1, Len(vs) - 2),
                            ApplyOperator(toks[i][1], vs[Len(vs) - 1], vs[Len(vs)])),
                     x)
    ELSE RpnRun(toks, i + 1, Append(vs, strtod(toks[i]).value), x)

RpnValue(toks, x) == RpnRun(toks, 1, <<>>, x)[1]

Returned == pc \in {"returned", "evaluated"}

IsNode(hp, p) == p \in 1..Len(hp)

-----------------------------------------------------------------------------
(* C1..C10: the compiler                                                   *)

\* C1: for every well-formed RPN sequence of number literals, x and binary
\* operators, the compilation returns a tree and evaluate on it at x gives
\* the value of the sequence computed directly on a value stack at x.
C1_EvaluateParseIsRpnValue ==
    WellFormedRpn(expression) =>
        /\ pc # "exit"
        /\ pc = "evaluated" => value = RpnValue(expression, xval)

\* C2: an operator token whose iteration completes pops exactly two nodes,
\* the first popped becomes the right child of the new Operator node, the
\* second popped its left child, and the new node is pushed in their place.
C2_OperatorPopsRightThenLeft ==
    [][ (HasToken /\ TokenClass(expression[pos]) = "operator" /\ pos' = pos + 1)
        => /\ Len(heap') = Len(heap) + 1
           /\ heap'[Len(heap')].type = NODE_OPERATOR
           /\ heap'[Len(heap')].data.symbol = expression[pos][1]
           /\ heap'[Len(heap')].right = stack.data[stack.top + 1]
           /\ heap'[Len(heap')].left = stack.data[stack.top]
           /\ stack'.top = stack.top - 1
           /\ stack'.data[stack'.top + 1] = Len(heap')
           /\ \A i \in 1..stack'.top : stack'.data[i] = stack.data[i] ]_vars

\* C2 witness: a returned tree whose root is the Operator node of operands
\* pushed in the order number, variable.
C2_Witness ==
    /\ pc = "returned"
    /\ IsNode(heap, root)
    /\ heap[root].type = NODE_OPERATOR
    /\ heap[root].data.symbol = "-"
    /\ IsNode(heap, heap[root].left) /\ IsNode(heap, heap[root].right)
    /\ heap[heap[root].left].type = NODE_NUMBER
    /\ heap[heap[root].right].type = NODE_VARIABLE

\* C3: if more than one node remains on the stack when the tokens are
\* consumed, parse does not return a tree.
C3_TrailingOperandsRejected ==
    (pc # "parse" /\ stack.top > 0) => ~Returned

\* C4: an operator token reached with fewer than two nodes on the stack, or a
\* function token reached with an empty stack, ends the compilation with the
\* stack-underflow failure and no tree returned (the failure is exit(1): no
\* step of the program follows it).
C4_UnderflowFails ==
    [][ ( /\ HasToken
          /\ \/ IsBinaryOperator(expression[pos]) /\ stack.top < 1
             \/ IsFunctionName(expression[pos]) /\ stack.top < 0 )
           => (pc' = "exit" /\ err' = "Stack underflow" /\ root' = NULL) ]_vars

\* C4 witness: [x, +, ...] stopped at the + with the underflow failure.
C4_Witness ==
    /\ pc = "exit"
    /\ err = "Stack underflow"
    /\ root = NULL
    /\ pos = 2
    /\ expression[1] = <<"x">>
    /\ expression[2] = <<"+">>

\* C5: no compile error (invalid token, stack underflow, stack overflow)
\* terminates the process.
C5_CompileErrorsDoNotTerminate ==
    pc = "exit" => err \notin {"Invalid token", "Stack underflow", "Stack overflow"}

\* C6: an Operator node is created only for a token that is exactly one
\* character long, that character being one of + - * / ^.
C6_OperatorOnlyForSingleCharacter ==
    [][ \A k \in (Len(heap) + 1)..Len(heap') :
           heap'[k].type = NODE_OPERATOR
           => (HasToken /\ IsBinaryOperator(expression[pos])) ]_vars

\* C7: a token that is not the variable, not an operator and not a function
\* name is pushed as a Number node carrying its value when the whole token is
\* a floating-point literal (and the stack has room), and otherwise ends the
\* compilation with the invalid-token failure, nothing pushed or allocated.
C7_NumberOrInvalidToken ==
    [][ ( /\ HasToken
          /\ ~IsVariable(expression[pos])
          /\ ~IsBinaryOperator(expression[pos])
          /\ ~IsFunctionName(expression[pos]) )
        => IF IsNumberLiteral(expression[pos])
           THEN stack.top < STACK_SIZE - 1
                => /\ pc' = "parse"
                   /\ Len(heap') = Len(heap) + 1
                   /\ heap'[Len(heap')].type = NODE_NUMBER
                   /\ heap'[Len(heap')].data.value = strtod(expression[pos]).value
                   /\ stack'.top = stack.top + 1
                   /\ stack'.data[stack'.top + 1] = Len(heap')
           ELSE /\ pc' = "exit"
                /\ err' = "Invalid token"
                /\ stack' = stack
                /\ heap' = heap ]_vars

StackInBounds ==
    /\ stack.top \in -1..(STACK_SIZE - 1)
    /\ Len(stack.data) <= STACK_SIZE

\* the iterations whose push meets the stack as the iteration found it
PushesDirectly(t) ==
    \/ TokenClass(t) = "variable"
    \/ TokenClass(t) = "number" /\ strtod(t).endptr = Len(t) + 1

\* C8: the stack always holds between 0 and STACK_SIZE nodes and no slot
\* beyond the array is written; a push onto a full stack ends with the
\* stack-overflow failure and leaves the stack as it was; a push onto a stack
\* that is not full succeeds and stores the node on top.
C8_StackBounded ==
    [][ /\ StackInBounds
        /\ StackInBounds'
        /\ err' = "Stack overflow" => (pc' = "exit" /\ stack.top = STACK_SIZE - 1)
        /\ (HasToken /\ ~PushesDirectly(expression[pos]))
           => err' # "Stack overflow"
        /\ (HasToken /\ PushesDirectly(expression[pos]))
           => IF stack.top = STACK_SIZE - 1
              THEN pc' = "exit" /\ err' = "Stack overflow" /\ stack' = stack
              ELSE /\ pc' = "parse"
                   /\ stack'.top = stack.top + 1
                   /\ stack'.data[stack'.top + 1] = Len(heap')
                   /\ \A i \in 1..(stack.top + 1) : stack'.data[i] = stack.data[i]
      ]_vars

\* C8 witness: the push of the 51st operand refused, the stack still full.
C8_Witness ==
    /\ pc = "exit"
    /\ err = "Stack overflow"
    /\ stack.top = STACK_SIZE - 1
    /\ Len(stack.data) = STACK_SIZE
    /\ pos = STACK_SIZE + 1

\* the nodes met walking from p along left and right links, parents first;
\* WILD marks a link into no node, or a path longer than the heap (a cycle)
RECURSIVE Walk(_, _, _)
Walk(hp, p, fuel) ==
    IF p = NULL THEN <<>>
    ELSE IF ~IsNode(hp, p) \/ fuel = 0 THEN <<WILD>>
    ELSE <<p>> \o Walk(hp, hp[p].left, fuel - 1) \o Walk(hp, hp[p].right, fuel - 1)

ArityOK(n) ==
    CASE n.type = NODE_FUNCTION -> n.left # NULL /\ n.right = NULL
      [] n.type = NODE_OPERATOR -> n.left # NULL /\ n.right # NULL
      [] n.type \in {NODE_VARIABLE, NODE_NUMBER} -> n.left = NULL /\ n.right = NULL
      [] OTHER -> FALSE

TreeOK(hp, p) ==
    LET w == Walk(hp, p, Len(hp))
    IN  /\ p # NULL
        /\ WILD \notin Range(w)
        /\ Cardinality(Range(w)) = Len(w)
        /\ \A i \in 1..Len(w) : ArityOK(hp[w[i]])

\* C9: the tree a compilation returns (the stack holding at least the node
\* returned) has every Function node with a left child and no right child,
\* every Operator node with both children, every Variable and Number node
\* with none, no cycle and no node reachable by two paths.
C9_ReturnedTreeArity ==
    (Returned /\ stack.top >= 0) => TreeOK(heap, root)

\* C9 witness: a returned tree whose root is a Function node over an
\* Operator node.
C9_Witness ==
    /\ pc = "returned"
    /\ IsNode(heap, root)
    /\ stack.top = 0
    /\ heap[root].type = NODE_FUNCTION
    /\ IsNode(heap, heap[root].left)
    /\ heap[heap[root].left].type = NODE_OPERATOR
    /\ TreeOK(heap, root)

\* C10: when parse returns, every node it allocated is reachable from the
\* returned root.
C10_AllNodesReachableFromRoot ==
    Returned =>
        \A k \in 1..Len(heap) : k \in Range(Walk(heap, root, Len(heap)))

-----------------------------------------------------------------------------
(* free_tree and evaluate on the tree a compilation returned               *)

\* the place of pointer p in the sequence of freed blocks, 0 when not freed
FreedAt(p) ==
    LET hits == {i \in 1..Len(freed) : freed[i] = NodeBlock(p)}
    IN  IF hits = {} THEN 0 ELSE CHOOSE i \in hits : \A j \in hits : i <= j

SubtreeSize(hp, p) == Len(Walk(hp, p, Len(hp)))

\* C11: free_tree on the root of a tree parse returned frees the nodes in
\* post-order (the left subtree, then the right subtree, then the node
\* itself, the root last), every node of the tree exactly once and nothing
\* else; on a null pointer it frees nothing.
C11_FreeTreePostOrderOnce ==
    (pc = "freed" /\ (root = NULL \/ TreeOK(heap, root))) =>
        LET w == Walk(heap, root, Len(heap))
        IN  /\ Len(freed) = Len(w)
            /\ \A i \in 1..Len(w) :
                  Cardinality({j \in 1..Len(freed) : freed[j] = NodeBlock(w[i])}) = 1
            /\ root # NULL => FreedAt(root) = Len(freed)
            /\ \A i \in 1..Len(w) :
                  LET n == heap[w[i]]
                  IN  /\ n.right # NULL => FreedAt(n.right) = FreedAt(w[i]) - 1
                      /\ n.left # NULL =>
                            FreedAt(n.left) =
                                FreedAt(w[i]) - 1 - SubtreeSize(heap, n.right)

\* C11 witness: a freed tree whose root is an Operator node over another
\* Operator node and a leaf.
C11_Witness ==
    /\ pc = "freed"
    /\ IsNode(heap, root)
    /\ TreeOK(heap, root)
    /\ heap[root].type = NODE_OPERATOR
    /\ heap[heap[root].left].type = NODE_OPERATOR
    /\ Len(freed) = 5

\* C12: evaluate on a Function node returns the node's operation applied to
\* the value of its left child, not to x: the tree of x 2 * sin evaluates
\* to sin(2 * x).
C12_FunctionAppliedToChildValue ==
    (pc = "evaluated" /\ IsNode(heap, root)
        /\ heap[root].type = NODE_FUNCTION) =>
        /\ value = CallFunc(heap[root].data.func,
                            evaluate(heap, heap[root].left, xval))
        /\ expression = << <<"x">>, <<"2">>, <<"*">>, <<"s", "i", "n">> >> =>
              value = Libm("sin", FMul(xval, Num(2, 1)))

\* C12 witness: sin over the product x * 2, evaluated at x = -2.
C12_Witness ==
    /\ pc = "evaluated"
    /\ expression = << <<"x">>, <<"2">>, <<"*">>, <<"s", "i", "n">> >>
    /\ xval = Num(-2, 1)
    /\ value = <<"app", "sin", Num(-4, 1)>>

-----------------------------------------------------------------------------
(* The extremum searches and the sums: the real numbers the claims speak   *)
(* of are exact rationals, computed without rounding                       *)

QAdd(a, b) == Num(a[2] * b[3] + b[2] * a[3], a[3] * b[3])

QSub(a, b) == Num(a[2] * b[3] - b[2] * a[3], a[3] * b[3])

QMul(a, b) == Num(a[2] * b[2], a[3] * b[3])

QAbs(a) == Num(Abs(a[2]), a[3])

QMax(a, b) == IF FLess(a, b) THEN b ELSE a

\* |a - b| is at most k units in the last place of a double of size scale
Near(a, b, k, scale) ==
    /\ IsNum(a)
    /\ IsNum(b)
    /\ FLessEq(QMul(QAbs(QSub(a, b)), Num(IPow(2, MantBits), 1)),
               QMul(Num(k, 1), scale))

\* the grid a + k*h, k = 0, 1, 2, ..., up to b, for a <= b and h > 0
Grid(a, b, h) ==
    LET d == QSub(b, a)
        K == (d[2] * h[3]) \div (d[3] * h[2])
    IN  {QAdd(a, QMul(Num(k, 1), h)) : k \in 0..K}

\* the points a walk from a in increments of h visits while x <= b
RECURSIVE Walked(_, _, _)
Walked(x, b, h) ==
    IF ~FLessEq(x, b) THEN <<>>
    ELSE IF FAdd(x, h) = x THEN <<x>>
    ELSE <<x>> \o Walked(FAdd(x, h), b, h)

\* m is one of vs and none of vs is greater (less) than it
IsMaxOf(m, vs) == m \in vs /\ \A v \in vs : ~FLess(m, v)

IsMinOf(m, vs) == m \in vs /\ \A v \in vs : ~FLess(v, m)

\* a search has returned for a tree, a <= b and a step h > 0
SearchCase ==
    /\ pc = "called"
    /\ frame.fn \in {"find_supremum", "find_infimum"}
    /\ root # NULL
    /\ FLessEq(frame.start, frame.end)
    /\ FLess(Num(0, 1), frame.step)

ExtremumOf(xs) ==
    LET vs == {evaluate(heap, root, x) : x \in xs}
    IN  IF frame.fn = "find_supremum" THEN IsMaxOf(out.value, vs)
        ELSE IsMinOf(out.value, vs)

\* C14 as stated: find_supremum (find_infimum) returns the maximum
\* (minimum) of evaluate over the points a + k*h <= b, a value attained at
\* one of them.
C14_ExtremumOverGrid ==
    SearchCase => ExtremumOf(Grid(frame.start, frame.end, frame.step))

\* C14 amended: the sample points are those of the walk x = a, x += h while
\* x <= b, every addition rounded to a double; find_supremum
\* (find_infimum) returns a value attained at one of them that no sampled
\* value is greater (less) than.
C14_ExtremumOverWalkedSamples ==
    SearchCase =>
        /\ out.xs = Walked(frame.start, frame.end, frame.step)
        /\ ExtremumOf(Range(out.xs))

\* C14 witness: find_supremum over at least three samples with the inexact
\* step, returning a value greater than the seed f(a).
C14_Witness ==
    /\ SearchCase
    /\ frame.fn = "find_supremum"
    /\ frame.step = step
    /\ Len(out.xs) >= 3
    /\ FLess(evaluate(heap, root, frame.start), out.value)

SumFunctions ==
    {"calculate_Riemann_sum", "calculate_lower_Darboux_sum",
     "calculate_upper_Darboux_sum"}

\* the sum function fn has returned for a tree, start < end and n >= 1
SumCase(fn) ==
    /\ pc = "called"
    /\ frame.fn = fn
    /\ root # NULL
    /\ FLess(frame.start, frame.end)
    /\ frame.n >= 1
    /\ FLess(Num(0, 1), frame.step)

\* what calculate_upper_Darboux_sum returns for the arguments of the call
UpperForSameArguments ==
    calculate_upper_Darboux_sum(heap, root, frame.start, frame.end,
                                frame.dx, frame.step).value

\* C15 as stated: the lower Darboux sum is less than or equal to the upper
\* Darboux sum of the same arguments.
C15_LowerAtMostUpper ==
    SumCase("calculate_lower_Darboux_sum") =>
        FLessEq(out.value, UpperForSameArguments)

\* C15 amended: the lower Darboux sum is less than or equal to the upper
\* Darboux sum of the same arguments unless one of the two is a NaN (the
\* integrand is NaN at a seed sample, or the terms hold infinities of both
\* signs); the lower sum is never greater than the upper sum.
C15_LowerAtMostUpperOrNaN ==
    SumCase("calculate_lower_Darboux_sum") =>
        \/ IsNaN(out.value)
        \/ IsNaN(UpperForSameArguments)
        \/ FLessEq(out.value, UpperForSameArguments)

\* C15 witness: a lower sum of three terms strictly below the upper sum.
C15_Witness ==
    /\ SumCase("calculate_lower_Darboux_sum")
    /\ Len(out.xs) = 3
    /\ FLess(out.value, UpperForSameArguments)

\* C16: with dx = (end - start) / n each of the three sums accumulates
\* exactly n terms, the i-th (i = 0 .. n-1) for the sub-interval that
\* starts at start + i*dx (up to the rounding of n additions), which is
\* where the Riemann sum samples the integrand.
C16_ExactlyNTerms ==
    \A fn \in SumFunctions :
        SumCase(fn) =>
            /\ Len(out.xs) = frame.n
            /\ \A i \in 1..Len(out.xs) :
                  Near(out.xs[i],
                       QAdd(frame.start, QMul(Num(i - 1, 1), frame.dx)),
                       frame.n, QMax(QAbs(frame.start), QAbs(frame.end)))

\* the constant an integrand of the model denotes, NaN when it is none
ConstantOf(e) ==
    IF e = << <<"5">> >> THEN Num(5, 1)
    ELSE IF e = << <<"0">>, <<"c", "o", "s">> >> THEN Num(1, 1)
    ELSE NaN

\* C17: for a constant integrand c, start < end and n >= 1, each of the
\* three sums is c * (end - start) up to the rounding of its n products and
\* additions; "5" on [0, 2] with n = 1 gives exactly 10.
C17_ConstantIntegrand ==
    \A fn \in SumFunctions :
        (SumCase(fn) /\ IsNum(ConstantOf(expression))) =>
            LET exact == QMul(ConstantOf(expression),
                              QSub(frame.end, frame.start))
            IN  /\ Near(out.value, exact, frame.n + 2, QAbs(exact))
                /\ (expression = << <<"5">> >> /\ frame.start = Num(0, 1)
                        /\ frame.end = Num(2, 1) /\ frame.n = 1) =>
                      out.value = Num(10, 1)

-----------------------------------------------------------------------------
(* integrate: the swap of the bounds and the validation failures           *)

\* the two bounds written in the interval line of the call
Written == sscanf(frame.interval, Indeterminate, Indeterminate)

\* the call has printed its report
Reported ==
    /\ frame.fn = "integrate"
    /\ frame.at \in {"free", "return"}
    /\ frame.failed = "none"

\* what integrate reports for the tree of this call on [a, b], a < b
ReportFor(a, b) ==
    LET dx == FDiv(FSub(b, a), Num(frame.refinement, 1))
    IN  log_integral_values(FALSE,
            calculate_Riemann_sum(heap, root, a, b, dx).value,
            calculate_lower_Darboux_sum(heap, root, a, b, dx, step).value,
            calculate_upper_Darboux_sum(heap, root, a, b, dx, step).value)

\* the printed number with the opposite sign
Negated(printed) == <<printed[1], -printed[2], printed[3]>>

\* C18: a call of integrate on an interval written [b ; a] with b > a, whose
\* integrand parsed to a tree and whose report was printed, has swapped the
\* bounds to start = a, end = b, and each of the three sums it reports
\* (Riemann, lower Darboux, upper Darboux) is the negation of the number
\* integrate reports for the same tree and refinement on [a ; b].
C18_SwappedBoundsNegateReport ==
    (Reported /\ Written.n = 2
              /\ FLess(Written.end, Written.start))
    => /\ frame.minus
       /\ frame.start = Written.end
       /\ frame.end = Written.start
       /\ \A i \in 1..3 :
            out[i] = Negated(ReportFor(Written.end, Written.start)[i])

\* a swapped call has reported a negative Riemann sum and a negative upper
\* Darboux sum for a tree whose sums on [a ; b] are positive
C18_Witness ==
    /\ Reported /\ frame.at = "return"
    /\ Written.n = 2 /\ FLess(Written.end, Written.start)
    /\ out[1][1] = "fixed" /\ out[1][2] = -1 /\ out[1][3] > 0
    /\ out[3][1] = "fixed" /\ out[3][2] = -1 /\ out[3][3] > 0
    /\ out[2] # out[3]

\* the interval line holds two numbers and they are equal
Degenerate == Written.n = 2 /\ FEq(Written.start, Written.end)

\* parse has not been called, no sum has been computed, nothing is printed
NothingComputed ==
    /\ pc \notin {"parse", "returned"}
    /\ expression = <<>>
    /\ heap = <<>>
    /\ root = NULL
    /\ frame.Riemann_sum = Indeterminate
    /\ frame.lower_Darboux_sum = Indeterminate
    /\ frame.upper_Darboux_sum = Indeterminate
    /\ out = <<>>

\* C19: a call of integrate whose interval has start == end never gets past
\* validate_interval: it returns from there (or from validate_integrand),
\* parse is never called, none of the three sums is computed and no result
\* is printed.
C19_DegenerateIntervalRejectedFirst ==
    (frame.fn = "integrate" /\ Degenerate)
    => /\ frame.at \in {"validate_integrand", "validate_interval", "return"}
       /\ frame.at = "return" => frame.failed \in {"integrand", "interval"}
       /\ NothingComputed

\* a call on "[1 ; 1.0]" was rejected by validate_interval
C19_Witness ==
    /\ frame.fn = "integrate" /\ Degenerate
    /\ frame.interval # <<"[", "1", " ", ";", " ", "1", "]">>
    /\ frame.at = "return" /\ frame.failed = "interval"
    /\ frame.start = Num(1, 1) /\ frame.end = Num(1, 1)

\* the call was aborted by one of the three validations
ValidationFailed ==
    /\ frame.fn = "integrate"
    /\ frame.at = "return"
    /\ frame.failed \in {"integrand", "interval", "refinement"}

\* this call fails a validation whatever the doubles hold before sscanf:
\* the integrand is too long, or the interval is "[ ; ]" or degenerate
MustFailValidation ==
    \/ strlen(remove_spaces(frame.integrand)) > MAX_INTEGRAND_LENGTH
    \/ frame.interval = UndefinedInterval
    \/ Degenerate

\* C20: a call of integrate that fails a validation (integrand longer than
\* MAX_INTEGRAND_LENGTH, interval "[ ; ]" or degenerate, refinement outside
\* [MIN_REFINEMENT, MAX_REFINEMENT]) has returned without calling parse or
\* computing a sum, has freed the integrand buffer and the interval buffer
\* once each and nothing else, and no tree node is allocated; a call whose
\* integrand or interval is such never gets past the validations, and a
\* refinement taken is within the range.
C20_ValidationFailureFreesBuffersOnce ==
    /\ ValidationFailed
       => /\ NothingComputed
          /\ pc = "idle"
          /\ freed = <<IntegrandBlock, IntervalBlock>>
    /\ (frame.fn = "integrate" /\ MustFailValidation)
       => /\ frame.at \in {"validate_integrand", "validate_interval", "return"}
          /\ frame.at = "return" => ValidationFailed
    /\ (frame.fn = "integrate" /\ frame.at \notin
            {"validate_integrand", "validate_interval",
             "get_partition_refinement", "return"})
       => /\ frame.refinement >= MIN_REFINEMENT
          /\ frame.refinement <= MAX_REFINEMENT

\* a call was aborted because the refinement read was out of range
C20_Witness ==
    /\ ValidationFailed
    /\ frame.failed = "refinement"
    /\ frame.refinement = -1
    /\ freed = <<IntegrandBlock, IntervalBlock>>

-----------------------------------------------------------------------------
(* integrate: the life of the tree                                         *)

\* the node blocks freed so far, in order
FreedNodes == SelectSeq(freed, LAMBDA b : b[1] = "node")

\* the three sums of the call are computed
SumsComputed ==
    /\ frame.Riemann_sum # Indeterminate
    /\ frame.lower_Darboux_sum # Indeterminate
    /\ frame.upper_Darboux_sum # Indeterminate

\* parse returned a tree to this call of integrate
TreeCompiled ==
    /\ frame.fn = "integrate"
    /\ frame.at \notin {"validate_integrand", "validate_interval",
                        "get_partition_refinement", "parse", "parsing"}
    /\ frame.failed = "none"
    /\ IsNode(heap, root)

\* while a node of the tree is freed the call has computed and printed the
\* three sums and has returned; once it has returned every node of the tree
\* is freed once, the root last
TreeDestroyedLast ==
    /\ (frame.fn = "integrate" /\ FreedNodes # <<>>)
       => /\ frame.at = "return" /\ frame.failed = "none"
          /\ SumsComputed
          /\ Len(out) = 6
    /\ (TreeCompiled /\ frame.at = "return")
       => /\ FreedNodes = NodeBlocks(free_tree(heap, root))
          /\ Len(FreedNodes) = SubtreeSize(heap, root)
          /\ FreedAt(root) = Len(freed)
          /\ \A i, j \in 1..Len(FreedNodes) :
                FreedNodes[i] = FreedNodes[j] => i = j
    /\ (TreeCompiled /\ frame.at # "return") => FreedNodes = <<>>

\* C21: in a call of integrate that compiled a tree, no node of the tree is
\* freed before the Riemann, the lower Darboux and the upper Darboux sums
\* are all computed and printed; when the call returns every node of the
\* tree has been freed exactly once; and no step (so no sum, no call of
\* evaluate) is taken once a node is freed.
C21_TreeDestroyedOnceAfterSums ==
    /\ []TreeDestroyedLast
    /\ [][FreedNodes = <<>>]_vars

\* a call on a three-node tree returned after printing its sums and the
\* nodes were freed after the two buffers
C21_Witness ==
    /\ TreeCompiled /\ frame.at = "return"
    /\ heap[root].type = NODE_OPERATOR
    /\ Len(FreedNodes) = 3
    /\ Len(freed) = 5
    /\ SumsComputed /\ Len(out) = 6

-----------------------------------------------------------------------------
(* The extremum searches on a null tree                                    *)

\* a call of find_supremum or find_infimum on a null tree has ended
NullSearch ==
    /\ frame.fn \in {"find_supremum", "find_infimum"}
    /\ root = NULL

\* C22: find_supremum and find_infimum called with a null tree return no
\* number: the call ends in exit(1) after printing "Error parsing
\* expression.", and evaluate was called at no sample point.
C22_NullTreeIsFatal ==
    NullSearch
    => /\ pc = "exit"
       /\ err = "Error parsing expression."
       /\ IsFatal(out.value)
       /\ out.xs = <<>>

\* find_infimum was called on the null pointer parse returned for an
\* expression without tokens
C22_Witness ==
    /\ NullSearch
    /\ frame.fn = "find_infimum"
    /\ expression = <<>>
    /\ pc = "exit"

-----------------------------------------------------------------------------
(* integrate on an integrand without tokens                                *)

\* the call is on an integrand that holds no token
NoTokens == frame.fn = "integrate" /\ frame.integrand.tokens = <<>>

\* C26: for an integrand without tokens (empty, or white space only) parse
\* returns the null pointer, and the call of integrate goes on to report
\* the parse error: it does not end in a fault, it computes no sum, and
\* when it returns past the validations it has printed "Error parsing
\* expression.", stored and printed no sum, and freed the integrand buffer
\* and the interval buffer once each.
C26_NoTokensIsParseError ==
    NoTokens
    => /\ pc = "returned" => root = NULL
       /\ pc # "exit"
       /\ frame.at \notin {"Riemann", "lower", "upper", "log", "free"}
       /\ frame.at = "return"
          => /\ frame.failed \in {"interval", "refinement", "parse"}
             /\ freed = <<IntegrandBlock, IntervalBlock>>
             /\ ~SumsComputed /\ out = <<>>
             /\ frame.failed = "parse" => err = "Error parsing expression."

-----------------------------------------------------------------------------
(* The operator symbols of a compiled tree                                 *)

\* C23: every Operator node of the tree parse returned carries one of the
\* symbols + - * / ^, and no call of evaluate on that tree ends in the
\* "Unknown operator" exit: a malformed operator token ends the
\* compilation, it never ends an evaluation.
C23_CompiledOperatorsAreKnown ==
    /\ (pc \in {"returned", "evaluated"} /\ IsNode(heap, root))
       => \A p \in Range(Walk(heap, root, Len(heap))) :
             (IsNode(heap, p) /\ heap[p].type = NODE_OPERATOR)
                => heap[p].data.symbol \in Range(OPERATORS)
    /\ err # "Unknown operator"

-----------------------------------------------------------------------------
(* integrate: the length limit and the stack                               *)

\* the call has passed validate_integrand
IntegrandAccepted ==
    /\ frame.fn = "integrate"
    /\ frame.at # "validate_integrand"
    /\ frame.failed # "integrand"

\* C24: for an integrand that passed validate_integrand (at most
\* MAX_INTEGRAND_LENGTH characters after remove_spaces) parse never ends in
\* "Stack overflow": the integrand holds at most STACK_SIZE tokens, and the
\* stack never holds more nodes than its STACK_SIZE slots.
C24_AcceptedIntegrandFitsStack ==
    IntegrandAccepted
    => /\ Len(frame.integrand.tokens) <= STACK_SIZE
       /\ err # "Stack overflow"
       /\ stack.top <= STACK_SIZE - 1
       /\ Len(stack.data) <= STACK_SIZE

\* the parse of an accepted integrand of MAX_INTEGRAND_LENGTH characters
\* has returned with every slot of the stack in use
C24_Witness ==
    /\ IntegrandAccepted
    /\ strlen(frame.integrand) = MAX_INTEGRAND_LENGTH
    /\ Len(frame.integrand.tokens) = STACK_SIZE
    /\ pc = "returned"
    /\ stack.top = STACK_SIZE - 1
    /\ IsNode(heap, root)

-----------------------------------------------------------------------------
(* The Riemann sum between the Darboux sums                                *)

\* what the two Darboux sums return for the tree and the interval of the
\* call, with step h
LowerForSameInterval(h) ==
    calculate_lower_Darboux_sum(heap, root, frame.start, frame.end,
                                frame.dx, h)

UpperForSameInterval(h) ==
    calculate_upper_Darboux_sum(heap, root, frame.start, frame.end,
                                frame.dx, h)

\* calculate_Riemann_sum has returned for a tree, start < end and n >= 1,
\* and the two Darboux sums return for the same arguments and step h
RiemannCase(h) ==
    /\ SumCase("calculate_Riemann_sum")
    /\ LowerForSameInterval(h).returns
    /\ UpperForSameInterval(h).returns

\* C25 as stated: the left-edge Riemann sum lies between the two Darboux
\* sums of the same tree, interval and refinement, for every positive
\* step: lower <= Riemann <= upper.
C25_RiemannBetweenDarboux ==
    \A h \in Steps :
        RiemannCase(h)
        => /\ FLessEq(LowerForSameInterval(h).value, out.value)
           /\ FLessEq(out.value, UpperForSameInterval(h).value)

\* C25 amended: lower <= Riemann <= upper unless one of the sums compared
\* is a NaN; the Riemann sum is never below the lower Darboux sum and never
\* above the upper one.
C25_RiemannBetweenDarbouxOrNaN ==
    \A h \in Steps :
        RiemannCase(h)
        => /\ \/ IsNaN(LowerForSameInterval(h).value)
              \/ IsNaN(out.value)
              \/ FLessEq(LowerForSameInterval(h).value, out.value)
           /\ \/ IsNaN(UpperForSameInterval(h).value)
              \/ IsNaN(out.value)
              \/ FLessEq(out.value, UpperForSameInterval(h).value)

\* a Riemann sum of three terms strictly between the two Darboux sums
C25_Witness ==
    /\ RiemannCase(step)
    /\ Len(out.xs) = 3
    /\ FLess(LowerForSameInterval(step).value, out.value)
    /\ FLess(out.value, UpperForSameInterval(step).value)

-----------------------------------------------------------------------------
(* validate_interval on an interval with a missing field                   *)

\* the interval line of the call does not hold two numbers
FieldMissing == frame.fn = "integrate" /\ Written.n < 2

\* C27: validate_interval accepts an interval only when sscanf assigned both
\* start and end: a call whose interval line lacks a field ("[1 ; ]",
\* "[a ; b]", "[ ; ]") is rejected by validate_interval at the latest, and
\* start and end never hold a value the interval line does not give.
C27_IntervalWithMissingFieldRejected ==
    FieldMissing
    => /\ frame.at \in {"validate_integrand", "validate_interval", "return"}
       /\ frame.at = "return" => frame.failed \in {"integrand", "interval"}
       /\ frame.start \in {Indeterminate, Written.start}
       /\ frame.end \in {Indeterminate, Written.end}

(* C28: when the log file cannot be opened, or a line buffer cannot be     *)
(* allocated, read_last_two_lines leaves its outputs unset and the caller  *)
(* does not go on: integrate is never entered with, and nothing is read    *)
(* through, a pointer read_last_two_lines did not assign.                  *)
OutputsUnset ==
    /\ frame.fn \in Callers
    /\ frame.integrand = Unset
    /\ frame.interval = Unset

C28_IntegrateOnlyWithAssignedBuffers ==
    OutputsUnset => frame.at # "integrate" /\ pc # "exit"

(* C30: for a log file of at least two lines, all newline-terminated,      *)
(* read_last_two_lines hands over the whole second-to-last line as the     *)
(* integrand and the whole last line as the interval, whatever their       *)
(* lengths (each as fgets stores it, or without its "\n").                 *)
WellFormedLog ==
    /\ frame.fn \in Callers
    /\ frame.file.exists
    /\ Len(frame.file.lines) >= 2
    /\ \A i \in 1..Len(frame.file.lines) :
          frame.file.lines[i][Len(frame.file.lines[i])] = "\n"

WholeLine(buffer, line) ==
    \/ buffer = line
    \/ Line(buffer) = line

C30_LastTwoLinesReturnedWhole ==
    (WellFormedLog /\ frame.at \in {"returned", "integrate"}
                   /\ frame.integrand # Unset)
        => /\ WholeLine(frame.integrand,
                        frame.file.lines[Len(frame.file.lines) - 1])
           /\ WholeLine(frame.interval,
                        frame.file.lines[Len(frame.file.lines)])

(* The same for the files all of whose lines fit the initial buffer.       *)
ShortLines ==
    \A i \in 1..Len(frame.file.lines) :
        Len(frame.file.lines[i]) < INITIAL_SIZE

C30_ShortLinesReturnedWhole ==
    (WellFormedLog /\ ShortLines /\ frame.at \in {"returned", "integrate"}
                   /\ frame.integrand # Unset)
        => /\ frame.integrand = frame.file.lines[Len(frame.file.lines) - 1]
           /\ frame.interval = frame.file.lines[Len(frame.file.lines)]

(* C29: for every call that passes validation (both bounds read from the   *)
(* interval line and different, refinement within 1..MAX_REFINEMENT, the   *)
(* expression compiled) dx is strictly positive and no sum loop or         *)
(* extremum search runs forever.                                           *)
BoundsRead == sscanf(frame.interval, Indeterminate, Indeterminate).n = 2

PassedValidation ==
    /\ frame.fn = "integrate"
    /\ frame.failed = "none"
    /\ frame.at \in {"Riemann", "lower", "upper", "log", "free", "return"}
    /\ BoundsRead

C29_PositiveWidth ==
    PassedValidation => FLess(Num(0, 1), frame.dx)

C29_ValidatedCallTerminates ==
    PassedValidation => FLess(Num(0, 1), frame.dx) /\ pc # "hang"

=============================================================================
